---- MODULE Spec2Model ----
(***************************************************************************)
(* Model of snyk.py: the SnykScanner methods (tool check, authentication,  *)
(* scanner invocation, change-set resolution, severity aggregation, gate   *)
(* decision, artifact writing) and the controller main() that composes     *)
(* them and turns the verdict into the process exit status.                *)
(*                                                                         *)
(* Two specifications share the variables:                                 *)
(*   Spec      one run of main(), with the outside world (subprocess exit  *)
(*             codes, captured stdout, file-system errors) chosen          *)
(*             nondeterministically at each step;                          *)
(*   UnitSpec  one direct call of a SnykScanner method on an argument      *)
(*             drawn from a bounded set.                                   *)
(***************************************************************************)
EXTENDS Integers, Sequences, FiniteSets, TLC

VARIABLES
    pc,                \* position of the run: a label of main(), or "call"/"returned"
    args,              \* argparse Namespace of main()
    environ,           \* names present in os.environ
    config_file,       \* content of config.json on disk (or unreadable)
    config,            \* dictionary returned by load_config
    log,               \* every record emitted through logger, in order
    procs,             \* every command handed to subprocess.run, in order
    files,             \* paths written by save_results_to_json, in order
    resolver_calls,    \* every call of get_changed_files, in order
    scan_results,      \* value returned by trigger_*_scan
    execution_time,    \* end_time - start_time around the scan
    severity_summary,  \* value returned by summarize_severities
    verdict,           \* value returned by evaluate_severity_summary
    exc,               \* exception that left the running function uncaught
    exit_status,       \* exit status of the process once pc = "exited"
    input              \* UnitSpec: the method called and its arguments

vars == <<pc, args, environ, config_file, config, log, procs, files,
          resolver_calls, scan_results, execution_time, severity_summary,
          verdict, exc, exit_status, input>>

----------------------------------------------------------------------------
(* Bounds of the model *)

MaxRuns == 2            \* runs in a document given to summarize_severities
MaxResults == 1         \* results in one run of such a document
MaxStdoutRuns == 1      \* runs in a document printed by the scanner in main()
MaxStdoutResults == 1   \* results in one run of such a document
MaxFiles == 2           \* paths in a file-list target / entries of a diff
MaxCount == 2           \* largest bucket count of a histogram given to the gate

----------------------------------------------------------------------------
(* Python values *)

PyNone == "<None>"
Absent == "<absent>"    \* a key that is not in a dictionary

SeqsUpTo(S, n) == UNION {[1..k -> S] : k \in 0..n}

\* dict.get(key, default) for a key whose value (or Absent) is v
DictGet(v, default) == IF v = Absent THEN default ELSE v

Levels == {"note", "info", "warning", "error", ""}

\* one entry of runs[].results: only "level" is consumed
Results == [level : Levels \cup {Absent}]

RunsOf(maxResults) ==
    {[has_results |-> TRUE, results |-> r] : r \in SeqsUpTo(Results, maxResults)}
        \cup {[has_results |-> FALSE, results |-> <<>>]}

ScanTimes == {3}

\* JSON objects: with a "runs" key, or without one (possibly with other keys,
\* such as the {"ok": false, "error": ...} object the scanner prints on failure)
ObjectsOf(maxRuns, maxResults) ==
    {[kind |-> "object", has_runs |-> TRUE, runs |-> rs,
      scan_time |-> t, other_keys |-> FALSE] :
        rs \in SeqsUpTo(RunsOf(maxResults), maxRuns), t \in ScanTimes \cup {-1}}
    \cup
    {[kind |-> "object", has_runs |-> FALSE, runs |-> <<>>,
      scan_time |-> -1, other_keys |-> o] : o \in BOOLEAN}

JsonNull == [kind |-> "null"]       \* a falsy value that is no dictionary
JsonArray == [kind |-> "array"]     \* a truthy value that is no dictionary
NotJson == [kind |-> "invalid"]     \* text json.loads rejects
Unset == [kind |-> "unset"]         \* a name not assigned yet

\* bool(v) as "if scan_results:" computes it
Truthy(v) ==
    CASE v.kind = "object" -> v.has_runs \/ v.scan_time # -1 \/ v.other_keys
      [] v.kind = "array" -> TRUE
      [] OTHER -> FALSE

----------------------------------------------------------------------------
(* Exceptions and log records *)

NoExc == [type |-> "none", text |-> <<>>]

\* str(e) of subprocess.CalledProcessError: the command is part of the text
CalledProcessError(cmd, rc) ==
    [type |-> "CalledProcessError",
     text |-> <<"Command '">> \o cmd
              \o <<"' returned non-zero exit status ", ToString(rc), ".">>]

Raise(type, text) == [type |-> type, text |-> text]

Info(msg) == [level |-> "INFO", msg |-> msg]
Warning(msg) == [level |-> "WARNING", msg |-> msg]
Error(msg) == [level |-> "ERROR", msg |-> msg]

Banner(text) == Info(<<"----------------" \o text \o "-----------------">>)

\* one entry of procs: the argv given to subprocess.run and what became of it
Proc(cmd, status, rc) == [cmd |-> cmd, status |-> status, returncode |-> rc]

----------------------------------------------------------------------------
(* SnykScanner.check_snyk_installed *)

VersionCmd == <<"snyk", "--version">>

\* what running "snyk --version" can do: exit 0, exit non-zero, or not start
ToolWorlds == {"ok", "nonzero", "notfound"}

check_snyk_installed(w) ==
    LET started == Banner("check_snyk_installed started")
        ended == Banner("check_snyk_installed Ended")
    IN  CASE w = "notfound" ->
               \* subprocess.run raises FileNotFoundError, which the
               \* except CalledProcessError clause does not handle
               [log |-> <<started>>,
                procs |-> <<Proc(VersionCmd, "notfound", -1)>>,
                exc |-> Raise("FileNotFoundError",
                              <<"[Errno 2] No such file or directory: ", "snyk">>)]
          [] w = "nonzero" ->
               [log |-> <<started,
                          Error(<<"Snyk CLI is not installed. Please install it from https://snyk.io/docs/snyk-cli-installation/">>),
                          ended>>,
                procs |-> <<Proc(VersionCmd, "exited", 1)>>,
                exc |-> CalledProcessError(VersionCmd, 1)]
          [] OTHER ->
               [log |-> <<started,
                          Info(<<"Snyk CLI is installed: ", "1.1293.0">>),
                          ended>>,
                procs |-> <<Proc(VersionCmd, "exited", 0)>>,
                exc |-> NoExc]

----------------------------------------------------------------------------
(* SnykScanner.check_snyk_token *)

AuthCmd(token) == <<"snyk", "auth", token>>

AuthCodes == {0, 1}     \* exit status of "snyk auth <token>"

\* the same method without check=True: a failed "snyk auth" goes unnoticed
check_snyk_token_unchecked(token, env, rc) ==
    LET started == Banner("check_snyk_token Started")
        ended == Banner("check_snyk_token Ended")
    IN  IF "SNYK_TOKEN" \in env
        THEN [log |-> <<started, Error(<<"SNYK_TOKEN environment variable not set.">>)>>,
              procs |-> <<>>,
              exc |-> Raise("ValueError", <<"SNYK_TOKEN environment variable not set.">>)]
        ELSE IF token = PyNone
        THEN [log |-> <<started>>, procs |-> <<>>,
              exc |-> Raise("TypeError",
                            <<"expected str, bytes or os.PathLike object, not NoneType">>)]
        ELSE [log |-> <<started, Info(<<"Authenticated to Snyk successfully.">>), ended>>,
              procs |-> <<Proc(AuthCmd(token), "exited", rc)>>,
              exc |-> NoExc]

check_snyk_token(token, env, rc) ==
    LET started == Banner("check_snyk_token Started")
        ended == Banner("check_snyk_token Ended")
    IN  IF "SNYK_TOKEN" \in env
        THEN \* line 39: raises when the variable IS in the environment; the
             \* ValueError passes the except CalledProcessError clause
             [log |-> <<started, Error(<<"SNYK_TOKEN environment variable not set.">>)>>,
              procs |-> <<>>,
              exc |-> Raise("ValueError", <<"SNYK_TOKEN environment variable not set.">>)]
        ELSE IF token = PyNone
        THEN \* subprocess.run refuses an argv holding None
             [log |-> <<started>>, procs |-> <<>>,
              exc |-> Raise("TypeError",
                            <<"expected str, bytes or os.PathLike object, not NoneType">>)]
        ELSE IF rc # 0
        THEN LET e == CalledProcessError(AuthCmd(token), rc)
             IN  [log |-> <<started,
                            Error(<<"Failed to authenticate to Snyk: ">> \o e.text),
                            ended>>,
                  procs |-> <<Proc(AuthCmd(token), "exited", rc)>>,
                  exc |-> e]
        ELSE [log |-> <<started, Info(<<"Authenticated to Snyk successfully.">>), ended>>,
              procs |-> <<Proc(AuthCmd(token), "exited", 0)>>,
              exc |-> NoExc]

----------------------------------------------------------------------------
(* SnykScanner.trigger_sast_scan / trigger_sca_scan *)

SastPrefix == <<"snyk", "code", "test">>
ScaPrefix == <<"snyk", "test">>

StrTarget(path) == [kind |-> "str", path |-> path]
ListTarget(fs) == [kind |-> "list", files |-> fs]
NoneTarget == [kind |-> "none"]

FileFlags(fs) == [i \in 1..Len(fs) |-> "--file=" \o fs[i]]

\* the same construction with the target-name flag outside the project-name test
BuildCommand_TargetNameAlways(prefix, target, project_name, target_name) ==
    LET base == CASE target.kind = "str" -> prefix \o <<"--json", target.path>>
                  [] target.kind = "list" -> prefix \o <<"--json">> \o FileFlags(target.files)
                  [] OTHER -> <<>>
        upload == IF project_name # PyNone
                  THEN <<"--report", "--project-name=" \o project_name>>
                  ELSE <<>>
        named == IF target_name # PyNone
                 THEN <<"--target-name=" \o target_name>>
                 ELSE <<>>
    IN  [bound |-> target.kind \in {"str", "list"},
         command |-> IF target.kind \in {"str", "list"}
                     THEN base \o upload \o named ELSE <<>>]

\* lines 59-69 / 107-117: command is left unbound when target is neither a
\* str nor a list
BuildCommand(prefix, target, project_name, target_name) ==
    LET base == CASE target.kind = "str" -> prefix \o <<"--json", target.path>>
                  [] target.kind = "list" -> prefix \o <<"--json">> \o FileFlags(target.files)
                  [] OTHER -> <<>>
        upload == IF project_name # PyNone
                  THEN <<"--report", "--project-name=" \o project_name>>
                       \o (IF target_name # PyNone
                           THEN <<"--target-name=" \o target_name>>
                           ELSE <<>>)
                  ELSE <<>>
    IN  [bound |-> target.kind \in {"str", "list"},
         command |-> IF target.kind \in {"str", "list"}
                     THEN base \o upload ELSE <<>>]

ReturnCodes == {0, 1, 2, 3, 7}

ReturnCodeLog(rc) ==
    CASE rc = 0 -> Info(<<"CLI scan completed successfully. No vulnerabilities found.">>)
      [] rc = 1 -> Warning(<<"CLI scan completed. Vulnerabilities found.">>)
      [] rc = 2 -> Error(<<"CLI scan failed. Failure, try to re-run the command.">>)
      [] rc = 3 -> Error(<<"CLI scan failed. No supported projects detected.">>)
      [] OTHER -> Error(<<"CLI scan failed with unexpected error code: ", ToString(rc)>>)

\* json.loads on the captured stdout
JsonLoads(stdout) ==
    IF stdout.kind = "invalid"
    THEN [exc |-> Raise("JSONDecodeError",
                        <<"Expecting value: line 1 column 1 (char 0)">>),
          value |-> Unset]
    ELSE [exc |-> NoExc, value |-> stdout]

\* the body shared by both methods; w is what the scanner process does:
\* its exit status and what it prints on stdout
TriggerScan(name, prefix, target, project_name, target_name, w) ==
    LET built == BuildCommand(prefix, target, project_name, target_name)
        started == Banner(name \o " Started")
        ended == Banner(name \o " Ended")
        parsed == JsonLoads(w.stdout)
    IN  IF ~built.bound
        THEN [log |-> <<started>>, procs |-> <<>>, ret |-> Unset,
              exc |-> Raise("UnboundLocalError",
                            <<"cannot access local variable 'command' where it is not associated with a value">>)]
        ELSE LET ran == <<started,
                          Info(<<"Running Command - ">> \o built.command),
                          ReturnCodeLog(w.returncode)>>
                 proc == <<Proc(built.command, "exited", w.returncode)>>
             IN  IF parsed.exc.type # "none"
                 THEN [log |-> ran \o <<Error(<<"Error parsing JSON output: ">>
                                              \o parsed.exc.text), ended>>,
                       procs |-> proc, ret |-> Unset, exc |-> parsed.exc]
                 ELSE [log |-> ran \o <<ended>>,
                       procs |-> proc, ret |-> parsed.value, exc |-> NoExc]

trigger_sast_scan(target, project_name, target_name, w) ==
    TriggerScan("trigger_sast_scan", SastPrefix, target, project_name, target_name, w)

trigger_sca_scan(target, project_name, target_name, w) ==
    TriggerScan("trigger_sca_scan", ScaPrefix, target, project_name, target_name, w)

----------------------------------------------------------------------------
(* SnykScanner.get_changed_files *)

Paths == {"a.py", "b.py"}

\* one entry of the diff index: the path before and after the change
DiffItems == [a_path : Paths, b_path : Paths]

\* what the repository and its remote can do: fail (bad path, fetch error,
\* missing ref), or produce a diff
VcsWorlds ==
    {[error |-> e, diff |-> <<>>] :
        e \in {"NoSuchPathError", "GitCommandError", "IndexError"}}
    \cup {[error |-> "none", diff |-> d] : d \in SeqsUpTo(DiffItems, MaxFiles)}

get_changed_files(repo_path, base_branch, pr_branch, w) ==
    LET started == Banner("get_changed_files Started")
        ended == Info(<<"----------------get_changed_files Ended----------------">>)
        changed_files == [i \in 1..Len(w.diff) |-> w.diff[i].a_path]
    IN  IF w.error # "none"
        THEN [log |-> <<started,
                        Error(<<"Error getting changed files: ", w.error>>),
                        ended>>,
              ret |-> <<>>,
              exc |-> Raise(w.error, <<w.error>>)]
        ELSE [log |-> <<started,
                        Info(<<"Found ", ToString(Len(changed_files)),
                               " changed files between ", base_branch,
                               " and ", pr_branch, ".">>),
                        Info(<<"Changed Files: ">> \o changed_files),
                        ended>>,
              ret |-> changed_files,
              exc |-> NoExc]

----------------------------------------------------------------------------
(* SnykScanner.summarize_severities *)

\* the same classification with the default bucket being low
Classify_DefaultLow(level) ==
    IF level = "error" THEN "high"
    ELSE IF level = "warning" THEN "medium"
    ELSE "low"

\* lines 192-197
Classify(level) ==
    IF level \in {"note", "info"} THEN "low"
    ELSE IF level = "warning" THEN "medium"
    ELSE "high"

Count(counts, level) ==
    LET bucket == Classify(level)
    IN  [counts EXCEPT ![bucket] = @ + 1]

RECURSIVE CountResults(_, _)
CountResults(results, counts) ==
    IF results = <<>> THEN counts
    ELSE CountResults(Tail(results),
                      Count(counts, DictGet(Head(results).level, "")))

RECURSIVE CountRuns(_, _)
CountRuns(runs, counts) ==
    IF runs = <<>> THEN counts
    ELSE CountRuns(Tail(runs),
                   CountResults(IF Head(runs).has_results
                                THEN Head(runs).results ELSE <<>>,
                                counts))

SummaryText(c) ==
    <<"Severity summary: ", "low", ToString(c.low), "medium", ToString(c.medium),
      "high", ToString(c.high)>>

summarize_severities(results) ==
    LET started == Banner("summarize_severities Started")
        ended == Banner("summarize_severities Ended")
        zero == [low |-> 0, medium |-> 0, high |-> 0]
    IN  IF results.kind # "object"
        THEN \* .get on a value that is no dictionary
             LET e == Raise("AttributeError", <<"object has no attribute 'get'">>)
             IN  [log |-> <<started,
                            Error(<<"Error summarizing severities: ">> \o e.text),
                            ended>>,
                  ret |-> Unset, exc |-> e]
        ELSE LET c == CountRuns(IF results.has_runs THEN results.runs ELSE <<>>, zero)
             IN  [log |-> <<started, Info(SummaryText(c)), ended>>,
                  ret |-> [low |-> c.low, medium |-> c.medium, high |-> c.high,
                           scan_time |-> IF results.scan_time = -1
                                         THEN 0 ELSE results.scan_time],
                  exc |-> NoExc]

----------------------------------------------------------------------------
(* SnykScanner.save_results_to_json *)

FsWorlds == {"ok", "oserror"}

save_results_to_json(results, file_path, w) ==
    LET started == Banner("save_results_to_json Started")
        ended == Banner("save_results_to_json Ended")
    IN  IF w # "ok"
        THEN LET e == Raise("OSError", <<"[Errno 13] Permission denied: ", file_path>>)
             IN  [log |-> <<started,
                            Error(<<"Error saving scan results to ", file_path, ": ">>
                                  \o e.text),
                            ended>>,
                  files |-> <<>>, exc |-> e]
        ELSE [log |-> <<started,
                        Info(<<"Scan results saved to ", file_path, ".">>),
                        ended>>,
              files |-> <<[path |-> file_path, document |-> results]>>,
              exc |-> NoExc]

----------------------------------------------------------------------------
(* SnykScanner.evaluate_severity_summary *)

\* the same gate with medium findings failing the pipeline too
evaluate_severity_summary_medium(summary) ==
    LET started == Banner("evaluate_severity_summary Started")
        ended == Banner("evaluate_severity_summary Ended")
    IN  IF summary.high + summary.medium > 0
        THEN [log |-> <<started,
                        Error(<<"High severity issues found. Pipeline will fail.">>),
                        ended>>,
              ret |-> FALSE]
        ELSE [log |-> <<started,
                        Info(<<"No high severity issues found. Pipeline will pass.">>),
                        ended>>,
              ret |-> TRUE]

evaluate_severity_summary(summary) ==
    LET started == Banner("evaluate_severity_summary Started")
        ended == Banner("evaluate_severity_summary Ended")
    IN  IF summary.high > 0
        THEN [log |-> <<started,
                        Error(<<"High severity issues found. Pipeline will fail.">>),
                        ended>>,
              ret |-> FALSE]
        ELSE [log |-> <<started,
                        Info(<<"No high severity issues found. Pipeline will pass.">>),
                        ended>>,
              ret |-> TRUE]

----------------------------------------------------------------------------
(* load_config *)

Tokens == {"tok-5ecret"}
ConfigTargets == {StrTarget("."), NoneTarget}

\* config.get(key) for the keys main() reads; a missing key reads as None
Configs ==
    [project_path : {"demo"},
     auth_token : Tokens \cup {PyNone},
     target : ConfigTargets]

ConfigFiles ==
    {[readable |-> TRUE, content |-> c] : c \in Configs}
        \cup {[readable |-> FALSE]}

load_config(path, file) ==
    IF file.readable
    THEN [log |-> <<Info(<<"Configuration loaded from ", path, ".">>)>>,
          ret |-> file.content, exc |-> NoExc]
    ELSE LET e == Raise("FileNotFoundError",
                        <<"[Errno 2] No such file or directory: ", path>>)
         IN  [log |-> <<Error(<<"Error loading configuration from ", path, ": ">>
                              \o e.text)>>,
              ret |-> Unset, exc |-> e]

----------------------------------------------------------------------------
(* main(): the controller *)

Namespaces ==
    [scan_for_push : BOOLEAN, scan_for_pr : BOOLEAN, report : BOOLEAN,
     target_name : {PyNone}, base_branch : {"main"}, pr_branch : {"feature"},
     repo_path : {"./"}]

Environments == {{}, {"SNYK_TOKEN"}}

ElapsedTimes == {2}     \* end_time - start_time, in seconds

scan_json_file_path == "./outputs/scan_results.json"
scan_summary_file_path == "./outputs/severity_summary.json"

\* what the scanner process can do in a run of main()
StdoutValues ==
    ObjectsOf(MaxStdoutRuns, MaxStdoutResults) \cup {JsonNull, JsonArray, NotJson}

ScanWorlds == [returncode : ReturnCodes, stdout : StdoutValues]

ArgsText(a) ==
    <<"Arguments: ", "Namespace(",
      "scan_for_push=", ToString(a.scan_for_push),
      "scan_for_pr=", ToString(a.scan_for_pr),
      "report=", ToString(a.report),
      "target_name=", a.target_name,
      "base_branch=", a.base_branch,
      "pr_branch=", a.pr_branch,
      "repo_path=", a.repo_path, ")">>

\* status of the interpreter when main() ends by returning (no exception) or
\* by an exception nothing catches
InterpreterExit(e) == IF e.type = "none" THEN 0 ELSE 1

\* sys.exit(1) at line 349
sys_exit_code == 1

Init ==
    /\ pc = "main"
    /\ args \in Namespaces
    /\ environ \in Environments
    /\ config_file \in ConfigFiles
    /\ config = Unset
    /\ log = <<>>
    /\ procs = <<>>
    /\ files = <<>>
    /\ resolver_calls = <<>>
    /\ scan_results = Unset
    /\ execution_time = 0
    /\ severity_summary = Unset
    /\ verdict = Unset
    /\ exc = NoExc
    /\ exit_status = -1
    /\ input = Unset

\* lines 286-310
Main_Start ==
    /\ pc = "main"
    /\ LET o == load_config("config.json", config_file)
       IN  /\ log' = log \o <<Banner("Main started"), Info(ArgsText(args))>> \o o.log
           /\ IF o.exc.type # "none"
              THEN /\ pc' = "exited"
                   /\ exc' = o.exc
                   /\ exit_status' = InterpreterExit(o.exc)
                   /\ UNCHANGED config
              ELSE /\ pc' = "tool_check"
                   /\ config' = o.ret
                   /\ UNCHANGED <<exc, exit_status>>
    /\ UNCHANGED <<args, environ, config_file, procs, files, resolver_calls,
                   scan_results, execution_time, severity_summary, verdict, input>>

\* lines 312-317: any exception of the tool check is caught and main() returns
Main_ToolCheck ==
    /\ pc = "tool_check"
    /\ \E w \in ToolWorlds :
         LET o == check_snyk_installed(w)
         IN  /\ procs' = procs \o o.procs
             /\ IF o.exc.type # "none"
                THEN /\ log' = log \o o.log
                               \o <<Error(<<"Snyk CLI check failed: ">> \o o.exc.text)>>
                     /\ pc' = "exited"
                     /\ exit_status' = InterpreterExit(NoExc)
                ELSE /\ log' = log \o o.log
                     /\ pc' = "auth"
                     /\ UNCHANGED exit_status
    /\ UNCHANGED <<args, environ, config_file, config, files, resolver_calls,
                   scan_results, execution_time, severity_summary, verdict, exc, input>>

\* lines 319-324: only ValueError is caught; any other exception leaves main()
Main_Auth ==
    /\ pc = "auth"
    /\ \E rc \in AuthCodes :
         LET o == check_snyk_token(config.auth_token, environ, rc)
         IN  /\ procs' = procs \o o.procs
             /\ CASE o.exc.type = "none" ->
                       /\ log' = log \o o.log
                       /\ pc' = "dispatch"
                       /\ UNCHANGED <<exc, exit_status>>
                  [] o.exc.type = "ValueError" ->
                       /\ log' = log \o o.log
                                 \o <<Error(<<"Authentication failed: ">> \o o.exc.text)>>
                       /\ pc' = "exited"
                       /\ exit_status' = InterpreterExit(NoExc)
                       /\ UNCHANGED exc
                  [] OTHER ->
                       /\ log' = log \o o.log
                       /\ pc' = "exited"
                       /\ exc' = o.exc
                       /\ exit_status' = InterpreterExit(o.exc)
    /\ UNCHANGED <<args, environ, config_file, config, files, resolver_calls,
                   scan_results, execution_time, severity_summary, verdict, input>>

\* lines 328-335: push scan without report upload
Main_ScanPush ==
    /\ pc = "dispatch"
    /\ args.scan_for_push
    /\ ~args.report
    /\ \E w \in ScanWorlds, t \in ElapsedTimes :
         LET o == trigger_sast_scan(config.target, PyNone, PyNone, w)
         IN  /\ procs' = procs \o o.procs
             /\ IF o.exc.type # "none"
                THEN /\ log' = log \o o.log
                     /\ pc' = "exited"
                     /\ exc' = o.exc
                     /\ exit_status' = InterpreterExit(o.exc)
                     /\ UNCHANGED <<scan_results, execution_time>>
                ELSE /\ log' = log \o o.log
                               \o <<Info(<<"Snyk scan execution time: ",
                                           ToString(t) \o ".00", " seconds">>)>>
                     /\ pc' = "scanned"
                     /\ scan_results' = o.ret
                     /\ execution_time' = t
                     /\ UNCHANGED <<exc, exit_status>>
    /\ UNCHANGED <<args, environ, config_file, config, files, resolver_calls,
                   severity_summary, verdict, input>>

\* lines 336-338: push scan with report upload. The call passes project_name
\* only, so Python raises TypeError for the missing positional argument
\* 'target' before the method body runs
Main_ScanPushReport ==
    /\ pc = "dispatch"
    /\ args.scan_for_push
    /\ args.report
    /\ LET e == Raise("TypeError",
                      <<"SnykScanner.trigger_sast_scan() missing 1 required positional argument: 'target'">>)
       IN  /\ pc' = "exited"
           /\ exc' = e
           /\ exit_status' = InterpreterExit(e)
    /\ UNCHANGED <<args, environ, config_file, config, log, procs, files,
                   resolver_calls, scan_results, execution_time,
                   severity_summary, verdict, input>>

\* lines 328, 351: without --scan-for-push nothing is scanned, whatever
\* --scan-for-pr says
Main_NoPush ==
    /\ pc = "dispatch"
    /\ ~args.scan_for_push
    /\ log' = log \o <<Banner("Main Ended")>>
    /\ pc' = "exited"
    /\ exit_status' = InterpreterExit(NoExc)
    /\ UNCHANGED <<args, environ, config_file, config, procs, files,
                   resolver_calls, scan_results, execution_time,
                   severity_summary, verdict, exc, input>>

\* lines 342, 351: a falsy scan result skips summary, artifacts and gate
Main_SkipFalsy ==
    /\ pc = "scanned"
    /\ ~Truthy(scan_results)
    /\ log' = log \o <<Banner("Main Ended")>>
    /\ pc' = "exited"
    /\ exit_status' = InterpreterExit(NoExc)
    /\ UNCHANGED <<args, environ, config_file, config, procs, files,
                   resolver_calls, scan_results, execution_time,
                   severity_summary, verdict, exc, input>>

\* lines 342-344
Main_Summarize ==
    /\ pc = "scanned"
    /\ Truthy(scan_results)
    /\ LET o == summarize_severities(scan_results)
       IN  /\ log' = log \o o.log
           /\ IF o.exc.type # "none"
              THEN /\ pc' = "exited"
                   /\ exc' = o.exc
                   /\ exit_status' = InterpreterExit(o.exc)
                   /\ UNCHANGED severity_summary
              ELSE /\ pc' = "summarized"
                   /\ severity_summary' = o.ret
                   /\ UNCHANGED <<exc, exit_status>>
    /\ UNCHANGED <<args, environ, config_file, config, procs, files,
                   resolver_calls, scan_results, execution_time, verdict, input>>

\* line 345
Main_SaveResults ==
    /\ pc = "summarized"
    /\ \E w \in FsWorlds :
         LET o == save_results_to_json(scan_results, scan_json_file_path, w)
         IN  /\ log' = log \o o.log
             /\ files' = files \o o.files
             /\ IF o.exc.type # "none"
                THEN /\ pc' = "exited"
                     /\ exc' = o.exc
                     /\ exit_status' = InterpreterExit(o.exc)
                ELSE /\ pc' = "saved_results"
                     /\ UNCHANGED <<exc, exit_status>>
    /\ UNCHANGED <<args, environ, config_file, config, procs, resolver_calls,
                   scan_results, execution_time, severity_summary, verdict, input>>

\* lines 344, 347
Main_SaveSummary ==
    /\ pc = "saved_results"
    /\ \E w \in FsWorlds :
         LET scan_summary == [execution_time |-> execution_time,
                              summary |-> severity_summary]
             o == save_results_to_json(scan_summary, scan_summary_file_path, w)
         IN  /\ log' = log \o o.log
             /\ files' = files \o o.files
             /\ IF o.exc.type # "none"
                THEN /\ pc' = "exited"
                     /\ exc' = o.exc
                     /\ exit_status' = InterpreterExit(o.exc)
                ELSE /\ pc' = "saved_summary"
                     /\ UNCHANGED <<exc, exit_status>>
    /\ UNCHANGED <<args, environ, config_file, config, procs, resolver_calls,
                   scan_results, execution_time, severity_summary, verdict, input>>

\* lines 348-351
Main_Decide ==
    /\ pc = "saved_summary"
    /\ LET o == evaluate_severity_summary(severity_summary)
       IN  /\ verdict' = [kind |-> "bool", pass |-> o.ret]
           /\ pc' = "exited"
           /\ IF ~o.ret
              THEN /\ log' = log \o o.log
                   /\ exit_status' = sys_exit_code
              ELSE /\ log' = log \o o.log \o <<Banner("Main Ended")>>
                   /\ exit_status' = InterpreterExit(NoExc)
    /\ UNCHANGED <<args, environ, config_file, config, procs, files,
                   resolver_calls, scan_results, execution_time,
                   severity_summary, exc, input>>

Next ==
    \/ Main_Start
    \/ Main_ToolCheck
    \/ Main_Auth
    \/ Main_ScanPush
    \/ Main_ScanPushReport
    \/ Main_NoPush
    \/ Main_SkipFalsy
    \/ Main_Summarize
    \/ Main_SaveResults
    \/ Main_SaveSummary
    \/ Main_Decide

Spec == Init /\ [][Next]_vars

----------------------------------------------------------------------------
(* Direct calls of the SnykScanner methods *)

ProjectNames == {"demo", PyNone}
TargetNames == {"web", PyNone}

Targets ==
    {StrTarget(".")} \cup {ListTarget(fs) : fs \in SeqsUpTo(Paths, MaxFiles)}
        \cup {NoneTarget}

\* what the scanner process can do when a method is called directly
AdapterWorlds ==
    [returncode : ReturnCodes,
     stdout : ObjectsOf(0, 0) \cup {JsonNull, JsonArray, NotJson}]

Documents == ObjectsOf(MaxRuns, MaxResults) \cup {JsonArray}

Histograms ==
    [low : 0..MaxCount, medium : 0..MaxCount, high : 0..MaxCount,
     scan_time : ScanTimes \cup {0}]

Inputs ==
    {[op |-> m, target |-> t, project_name |-> pn, target_name |-> tn, world |-> w] :
        m \in {"trigger_sast_scan", "trigger_sca_scan"}, t \in Targets,
        pn \in ProjectNames, tn \in TargetNames, w \in AdapterWorlds}
    \cup
    {[op |-> "get_changed_files", repo_path |-> "./", base_branch |-> "main",
      pr_branch |-> "feature", world |-> w] : w \in VcsWorlds}
    \cup
    {[op |-> "summarize_severities", scan_results |-> d] : d \in Documents}
    \cup
    {[op |-> "save_results_to_json", results |-> d, file_path |-> scan_json_file_path,
      world |-> w] : d \in ObjectsOf(0, 0), w \in FsWorlds}
    \cup
    {[op |-> "evaluate_severity_summary", severity_summary |-> h] : h \in Histograms}

UnitInit ==
    /\ pc = "call"
    /\ input \in Inputs
    /\ args = Unset
    /\ environ = {}
    /\ config_file = Unset
    /\ config = Unset
    /\ log = <<>>
    /\ procs = <<>>
    /\ files = <<>>
    /\ resolver_calls = <<>>
    /\ scan_results = Unset
    /\ execution_time = 0
    /\ severity_summary = Unset
    /\ verdict = Unset
    /\ exc = NoExc
    /\ exit_status = -1

Call_trigger_sast_scan ==
    /\ pc = "call"
    /\ input.op = "trigger_sast_scan"
    /\ LET o == trigger_sast_scan(input.target, input.project_name,
                                  input.target_name, input.world)
       IN  /\ log' = log \o o.log
           /\ procs' = procs \o o.procs
           /\ scan_results' = o.ret
           /\ exc' = o.exc
    /\ pc' = "returned"
    /\ UNCHANGED <<args, environ, config_file, config, files, resolver_calls,
                   execution_time, severity_summary, verdict, exit_status, input>>

Call_trigger_sca_scan ==
    /\ pc = "call"
    /\ input.op = "trigger_sca_scan"
    /\ LET o == trigger_sca_scan(input.target, input.project_name,
                                 input.target_name, input.world)
       IN  /\ log' = log \o o.log
           /\ procs' = procs \o o.procs
           /\ scan_results' = o.ret
           /\ exc' = o.exc
    /\ pc' = "returned"
    /\ UNCHANGED <<args, environ, config_file, config, files, resolver_calls,
                   execution_time, severity_summary, verdict, exit_status, input>>

Call_get_changed_files ==
    /\ pc = "call"
    /\ input.op = "get_changed_files"
    /\ LET o == get_changed_files(input.repo_path, input.base_branch,
                                  input.pr_branch, input.world)
       IN  /\ log' = log \o o.log
           /\ resolver_calls' = resolver_calls
                  \o <<[repo_path |-> input.repo_path,
                        base_branch |-> input.base_branch,
                        pr_branch |-> input.pr_branch,
                        changed_files |-> o.ret]>>
           /\ exc' = o.exc
    /\ pc' = "returned"
    /\ UNCHANGED <<args, environ, config_file, config, procs, files, scan_results,
                   execution_time, severity_summary, verdict, exit_status, input>>

Call_summarize_severities ==
    /\ pc = "call"
    /\ input.op = "summarize_severities"
    /\ LET o == summarize_severities(input.scan_results)
       IN  /\ log' = log \o o.log
           /\ severity_summary' = o.ret
           /\ exc' = o.exc
    /\ pc' = "returned"
    /\ UNCHANGED <<args, environ, config_file, config, procs, files,
                   resolver_calls, scan_results, execution_time, verdict,
                   exit_status, input>>

Call_save_results_to_json ==
    /\ pc = "call"
    /\ input.op = "save_results_to_json"
    /\ LET o == save_results_to_json(input.results, input.file_path, input.world)
       IN  /\ log' = log \o o.log
           /\ files' = files \o o.files
           /\ exc' = o.exc
    /\ pc' = "returned"
    /\ UNCHANGED <<args, environ, config_file, config, procs, resolver_calls,
                   scan_results, execution_time, severity_summary, verdict,
                   exit_status, input>>

Call_evaluate_severity_summary ==
    /\ pc = "call"
    /\ input.op = "evaluate_severity_summary"
    /\ LET o == evaluate_severity_summary(input.severity_summary)
       IN  /\ log' = log \o o.log
           /\ verdict' = [kind |-> "bool", pass |-> o.ret]
    /\ pc' = "returned"
    /\ UNCHANGED <<args, environ, config_file, config, procs, files,
                   resolver_calls, scan_results, execution_time,
                   severity_summary, exc, exit_status, input>>

UnitNext ==
    \/ Call_trigger_sast_scan
    \/ Call_trigger_sca_scan
    \/ Call_get_changed_files
    \/ Call_summarize_severities
    \/ Call_save_results_to_json
    \/ Call_evaluate_severity_summary

UnitSpec == UnitInit /\ [][UnitNext]_vars

----------------------------------------------------------------------------
(* Properties *)

Returned(ops) == pc = "returned" /\ input.op \in ops

IsScannerCmd(cmd) ==
    /\ Len(cmd) >= 3
    /\ \/ SubSeq(cmd, 1, 3) = SastPrefix
       \/ SubSeq(cmd, 1, 2) = ScaPrefix

IsAuthCmd(cmd) == Len(cmd) = 3 /\ cmd[1] = "snyk" /\ cmd[2] = "auth"

Succeeded(p) == p.status = "exited" /\ p.returncode = 0

\* the tool check and the authentication both ran and succeeded
ToolAndAuthOk ==
    \E j, k \in DOMAIN procs :
        /\ j < k
        /\ procs[j].cmd = VersionCmd /\ Succeeded(procs[j])
        /\ IsAuthCmd(procs[k].cmd) /\ Succeeded(procs[k])

\* C1: evaluate_severity_summary returns pass (True) if and only if the
\* histogram's high count is 0, for every histogram; the low and medium
\* counts never change the verdict.
C1_PassIffNoHigh ==
    Returned({"evaluate_severity_summary"}) =>
        /\ verdict.pass <=> (input.severity_summary.high = 0)
        /\ \A h \in Histograms :
              h.high = input.severity_summary.high
                  => evaluate_severity_summary(h).ret = verdict.pass

C1_Witness ==
    /\ Returned({"evaluate_severity_summary"})
    /\ input.severity_summary.high = 0
    /\ input.severity_summary.medium = MaxCount
    /\ input.severity_summary.low = MaxCount
    /\ verdict.pass

\* the places <<run, result>> of a document's results
ResultPlaces(doc) ==
    UNION {{<<r, i>> : i \in 1..Len(doc.runs[r].results)} : r \in 1..Len(doc.runs)}

LevelAt(doc, p) == doc.runs[p[1]].results[p[2]].level

\* C2: for any scan result document with R >= 0 runs, summarize_severities
\* returns low = the number of results whose level is note or info, medium =
\* the number whose level is warning, high = the number of all other results
\* (a missing or empty level included), and low + medium + high is the total
\* number of results across all runs; a document with zero runs yields zeros.
C2_SummaryCountsLevels ==
    (Returned({"summarize_severities"}) /\ input.scan_results.kind = "object") =>
        LET doc == input.scan_results
            all == ResultPlaces(doc)
            lows == {p \in all : LevelAt(doc, p) \in {"note", "info"}}
            mediums == {p \in all : LevelAt(doc, p) = "warning"}
            highs == {p \in all : LevelAt(doc, p) \notin {"note", "info", "warning"}}
        IN  /\ exc = NoExc
            /\ severity_summary.low = Cardinality(lows)
            /\ severity_summary.medium = Cardinality(mediums)
            /\ severity_summary.high = Cardinality(highs)
            /\ severity_summary.low + severity_summary.medium
                   + severity_summary.high = Cardinality(all)
            /\ Len(doc.runs) = 0 =>
                   /\ severity_summary.low = 0
                   /\ severity_summary.medium = 0
                   /\ severity_summary.high = 0

C2_Witness ==
    /\ Returned({"summarize_severities"})
    /\ input.scan_results.kind = "object"
    /\ Len(input.scan_results.runs) = MaxRuns
    /\ \E p, q \in ResultPlaces(input.scan_results) :
          /\ p[1] # q[1]
          /\ LevelAt(input.scan_results, p) = Absent
          /\ LevelAt(input.scan_results, q) = "info"
    /\ severity_summary.high = 1
    /\ severity_summary.low = 1

\* C3: the process ends with the gate-failure exit status if and only if the
\* run reached the decision step with verdict fail; a run with verdict pass
\* exits 0, and no run that ends aborted (tool check, authentication, scanner
\* invocation, output parsing or artifact persistence failure) ends with the
\* same exit status as a verdict-driven failure.
C3_GateExitIffVerdictFail ==
    pc = "exited" =>
        /\ (exit_status = sys_exit_code)
               <=> (verdict.kind = "bool" /\ ~verdict.pass)
        /\ (verdict.kind = "bool" /\ verdict.pass) => exit_status = 0

\* C4: in trigger_sast_scan and trigger_sca_scan a scanner exit code of 1
\* never produces an error and its output flows on to aggregation, while exit
\* codes 2, 3 and any unrecognized code such as 7 do produce an error that the
\* caller can tell from a normal result.
C4_FailureCodesRaise ==
    (Returned({"trigger_sast_scan", "trigger_sca_scan"})
        /\ input.target.kind \in {"str", "list"}) =>
        /\ (input.world.returncode = 1 /\ input.world.stdout.kind # "invalid")
               => (exc = NoExc /\ scan_results = input.world.stdout)
        /\ input.world.returncode \notin {0, 1} => exc # NoExc

\* C5: in every run the scanner is invoked only after the tool check has
\* succeeded and authentication has succeeded: if the tool check fails,
\* neither the authentication command nor the scanner is ever run, and if
\* authentication fails, the scanner is never run.
C5_ScanOnlyAfterToolAndAuth ==
    /\ \A i \in DOMAIN procs :
          IsScannerCmd(procs[i].cmd) =>
              \E j, k \in DOMAIN procs :
                  /\ j < k /\ k < i
                  /\ procs[j].cmd = VersionCmd /\ Succeeded(procs[j])
                  /\ IsAuthCmd(procs[k].cmd) /\ Succeeded(procs[k])
    /\ (\E j \in DOMAIN procs : procs[j].cmd = VersionCmd /\ ~Succeeded(procs[j]))
           => \A i \in DOMAIN procs : procs[i].cmd = VersionCmd
    /\ (\E k \in DOMAIN procs : IsAuthCmd(procs[k].cmd) /\ ~Succeeded(procs[k]))
           => \A i \in DOMAIN procs : ~IsScannerCmd(procs[i].cmd)
    /\ (\E m \in DOMAIN log : log[m].msg[1] = "Authentication failed: ")
           => \A i \in DOMAIN procs : ~IsScannerCmd(procs[i].cmd)

C5_Witness ==
    /\ pc = "scanned"
    /\ Len(procs) = 3
    /\ IsScannerCmd(procs[3].cmd)
    /\ ToolAndAuthOk

\* C6: in a run where PR-scan mode is requested and the tool check and
\* authentication succeed, the controller calls get_changed_files with the
\* repository path, base branch and PR branch, and then invokes the scanner
\* in file-set mode on the returned changed paths.
C6_PrScanResolvesChangeSet ==
    (pc = "exited" /\ args.scan_for_pr /\ ToolAndAuthOk) =>
        /\ Len(resolver_calls) = 1
        /\ resolver_calls[1].repo_path = args.repo_path
        /\ resolver_calls[1].base_branch = args.base_branch
        /\ resolver_calls[1].pr_branch = args.pr_branch
        /\ resolver_calls[1].changed_files # <<>> =>
               \E i \in DOMAIN procs :
                   /\ IsScannerCmd(procs[i].cmd)
                   /\ \A f \in DOMAIN resolver_calls[1].changed_files :
                          \E a \in DOMAIN procs[i].cmd :
                              procs[i].cmd[a]
                                  = "--file=" \o resolver_calls[1].changed_files[f]

\* the number of upload flags a call asks for
UploadFlags(project_name, target_name) ==
    IF project_name = PyNone THEN 0
    ELSE IF target_name = PyNone THEN 2 ELSE 3

\* C7: the scanner command built by trigger_sast_scan / trigger_sca_scan is
\* the fixed prefix with --json, followed by either the single path argument
\* (string target) or exactly one --file=<path> flag per list element in
\* input order and no bare path argument (list target), followed by --report
\* and --project-name=<n> if and only if project_name is given, followed by
\* --target-name=<n> if and only if both project_name and target_name are
\* given.
C7_CommandShape ==
    (Returned({"trigger_sast_scan", "trigger_sca_scan"})
        /\ input.target.kind \in {"str", "list"}) =>
        LET head == IF input.op = "trigger_sast_scan"
                    THEN <<"snyk", "code", "test", "--json">>
                    ELSE <<"snyk", "test", "--json">>
            n == Len(head)
            k == IF input.target.kind = "str" THEN 1 ELSE Len(input.target.files)
            u == UploadFlags(input.project_name, input.target_name)
        IN  /\ Len(procs) = 1
            /\ Len(procs[1].cmd) = n + k + u
            /\ SubSeq(procs[1].cmd, 1, n) = head
            /\ input.target.kind = "str" => procs[1].cmd[n + 1] = input.target.path
            /\ input.target.kind = "list" =>
                   \A i \in 1..k :
                       procs[1].cmd[n + i] = "--file=" \o input.target.files[i]
            /\ u >= 2 =>
                   /\ procs[1].cmd[n + k + 1] = "--report"
                   /\ procs[1].cmd[n + k + 2]
                          = "--project-name=" \o input.project_name
            /\ u = 3 =>
                   procs[1].cmd[n + k + 3] = "--target-name=" \o input.target_name

C7_Witness ==
    /\ Returned({"trigger_sast_scan"})
    /\ input.target = ListTarget(<<"a.py", "b.py">>)
    /\ input.project_name = "demo"
    /\ input.target_name = PyNone
    /\ procs[1].cmd = <<"snyk", "code", "test", "--json", "--file=a.py",
                        "--file=b.py", "--report", "--project-name=demo">>

\* C8: in every run, on every path including authentication failure, no log
\* message emitted by the pipeline contains the authentication token.
C8_TokenNeverLogged ==
    (config_file.readable /\ config_file.content.auth_token # PyNone) =>
        \A m \in DOMAIN log :
            \A f \in DOMAIN log[m].msg :
                log[m].msg[f] # config_file.content.auth_token

\* C9: in a push-scan run with report upload requested, once the tool check
\* and authentication succeed, the scanner is invoked once in whole-project
\* mode with the upload-report flag and the project-name flag, and the run
\* then proceeds through summarize, persist and decide to a verdict-driven
\* exit.
C9_PushReportScansWithUpload ==
    (pc = "exited" /\ args.scan_for_push /\ args.report /\ ToolAndAuthOk) =>
        /\ Cardinality({i \in DOMAIN procs : IsScannerCmd(procs[i].cmd)}) = 1
        /\ \A i \in DOMAIN procs :
              IsScannerCmd(procs[i].cmd) =>
                  /\ \E a \in DOMAIN procs[i].cmd : procs[i].cmd[a] = "--report"
                  /\ \E a \in DOMAIN procs[i].cmd :
                        procs[i].cmd[a] = "--project-name=" \o config.project_path
        /\ exc.type # "TypeError"

\* C10: check_snyk_token raises the "SNYK_TOKEN environment variable not set"
\* error only when the SNYK_TOKEN environment variable is absent; whenever
\* SNYK_TOKEN is present in the environment, the authentication command is
\* run with the configured token and the run can proceed to scanning.
C10_NotSetErrorOnlyWhenAbsent ==
    /\ (\E m \in DOMAIN log :
           log[m] = Error(<<"SNYK_TOKEN environment variable not set.">>))
           => "SNYK_TOKEN" \notin environ
    /\ ("SNYK_TOKEN" \in environ /\ pc \notin {"main", "tool_check", "auth"}
            /\ (\E j \in DOMAIN procs :
                   procs[j].cmd = VersionCmd /\ Succeeded(procs[j]))
            /\ config.auth_token # PyNone)
           => \E k \in DOMAIN procs : procs[k].cmd = AuthCmd(config.auth_token)

====
